---- MODULE Spec2Model ----
(***************************************************************************)
(* ResponseAreaTub and initialiseTub (src/types/response-area-tub.ts and   *)
(* its older twin src/unnamed/part_000).                                   *)
(*                                                                         *)
(* A tub holds two schemas declared by its concrete variant, a response    *)
(* type, and the config / answer values extracted through the schemas.     *)
(* Every public method is one action.  A thrown Error is the err field of  *)
(* the record the method returns; the methods called so far are recorded   *)
(* in its calls field, in call order.                                      *)
(***************************************************************************)
EXTENDS Integers, Sequences, FiniteSets, TLC

\* Largest body an object carries in the model.
MaxBody == 2

(***************************************************************************)
(* JavaScript values.  A value is undefined or an object; body stands for  *)
(* the object's declared fields and extra for a key the schema does not    *)
(* know (which a zod object schema strips).  The objects enumerated are    *)
(* the plain ones and one that carries an unknown key.                     *)
(***************************************************************************)
Undefined == [kind |-> "undefined", body |-> 0, extra |-> FALSE]

WithExtraKey == [kind |-> "object", body |-> 1, extra |-> TRUE]

Objects == [kind : {"object"}, body : 0..MaxBody, extra : {FALSE}] \cup {WithExtraKey}

Values == {Undefined} \cup Objects

(***************************************************************************)
(* Schemas.  NoSchema is an undeclared schema field.  "object" is an       *)
(* object schema with a refinement (body >= 1) that strips unknown keys;   *)
(* "optional" is the same schema wrapped in .optional(), which also        *)
(* accepts undefined and yields undefined.                                 *)
(***************************************************************************)
NoSchema == "none"

ConfigSchemas == {NoSchema, "object"}

AnswerSchemas == {NoSchema, "object", "optional"}

safeParse(schema, provided) ==
    IF provided.kind = "object" /\ provided.body >= 1
    THEN [success |-> TRUE, data |-> [provided EXCEPT !.extra = FALSE]]
    ELSE IF schema = "optional" /\ provided = Undefined
    THEN [success |-> TRUE, data |-> Undefined]
    ELSE [success |-> FALSE, data |-> Undefined]

(***************************************************************************)
(* responseType?: string.  set = FALSE is the undeclared field; the empty  *)
(* string is a declared but falsy value.                                   *)
(***************************************************************************)
NoResponseType == [set |-> FALSE, str |-> ""]

ResponseTypes == {NoResponseType, [set |-> TRUE, str |-> ""], [set |-> TRUE, str |-> "NUMBER"]}

\* !this.responseType
Falsy(rt) == ~rt.set \/ rt.str = ""

(***************************************************************************)
(* The response argument of initialiseTub: Record<string, unknown> or      *)
(* undefined.  hasTypename is ('__typename' in response).  A missing       *)
(* config or answer field reads as Undefined.                              *)
(***************************************************************************)
Typenames == {"TeacherModularResponse", "StudentModularResponse", "OtherResponse"}

NoResponse ==
    [present |-> FALSE, hasTypename |-> FALSE, typename |-> "",
     config |-> Undefined, answer |-> Undefined]

Untagged == [present : {TRUE}, hasTypename : {FALSE}, typename : {""},
             config : Values, answer : Values]

Tagged(tn) == [present : {TRUE}, hasTypename : {TRUE}, typename : {tn},
               config : Values, answer : Values]

Responses == Untagged \cup UNION {Tagged(tn) : tn \in Typenames}

DisplayModes == {"normal", "peek"}

NoError == "none"

VARIABLES
    responseType,   \* readonly responseType?: string
    configSchema,   \* readonly configSchema?: ZodSchema
    answerSchema,   \* readonly answerSchema: ZodSchema (optional in part_000)
    config,         \* _config
    answer,         \* _answer
    call,           \* the last state-changing call: arguments, pre-state, outcome
    out             \* the value a serialization call is handing to its caller

vars == <<responseType, configSchema, answerSchema, config, answer, call, out>>


(***************************************************************************)
(* A method body runs on a working copy of the tub: the two fields it may  *)
(* assign, the Error it has thrown (NoError while it runs normally) and    *)
(* the methods entered so far.                                             *)
(***************************************************************************)
Start == [config |-> config, answer |-> answer, err |-> NoError, calls |-> <<>>]

Enter(t, method) == [t EXCEPT !.calls = Append(@, method)]

Throw(t, message) == [t EXCEPT !.err = message]

extractConfig_passThrough(t, provided) ==
    LET t1 == Enter(t, "extractConfig") IN
    IF configSchema = NoSchema THEN [t1 EXCEPT !.config = provided]
    ELSE LET parsedConfig == safeParse(configSchema, provided) IN
         IF ~parsedConfig.success THEN Throw(t1, "Could not extract config")
         ELSE [t1 EXCEPT !.config = parsedConfig.data]

extractConfig_raw(t, provided) ==
    LET t1 == Enter(t, "extractConfig") IN
    IF configSchema = NoSchema THEN t1
    ELSE LET parsedConfig == safeParse(configSchema, provided) IN
         IF ~parsedConfig.success THEN Throw(t1, "Could not extract config")
         ELSE [t1 EXCEPT !.config = provided]

\* protected extractConfig = (provided: any): void
extractConfig(t, provided) ==
    LET t1 == Enter(t, "extractConfig") IN
    IF configSchema = NoSchema THEN t1
    ELSE LET parsedConfig == safeParse(configSchema, provided) IN
         IF ~parsedConfig.success THEN Throw(t1, "Could not extract config")
         ELSE [t1 EXCEPT !.config = parsedConfig.data]

extractAnswer_raw(t, provided) ==
    LET t1 == Enter(t, "extractAnswer") IN
    IF answerSchema = NoSchema THEN Throw(t1, "Not implemented")
    ELSE LET parsedAnswer == safeParse(answerSchema, provided) IN
         IF ~parsedAnswer.success THEN Throw(t1, "Could not extract answer")
         ELSE [t1 EXCEPT !.answer = provided]

extractAnswer_assignFirst(t, provided) ==
    LET t1 == Enter(t, "extractAnswer") IN
    IF answerSchema = NoSchema THEN Throw(t1, "Not implemented")
    ELSE LET parsedAnswer == safeParse(answerSchema, provided)
             t2 == [t1 EXCEPT !.answer = parsedAnswer.data] IN
         IF ~parsedAnswer.success THEN Throw(t2, "Could not extract answer")
         ELSE t2

\* protected extractAnswer = (provided: any): void
extractAnswer(t, provided) ==
    LET t1 == Enter(t, "extractAnswer") IN
    IF answerSchema = NoSchema THEN Throw(t1, "Not implemented")
    ELSE LET parsedAnswer == safeParse(answerSchema, provided) IN
         IF ~parsedAnswer.success THEN Throw(t1, "Could not extract answer")
         ELSE [t1 EXCEPT !.answer = parsedAnswer.data]

\* initWithDefault = (): void => {}
initWithDefault(t) == Enter(t, "initWithDefault")

initWithResponse_answerFirst(t, response) ==
    LET t1 == extractAnswer(Enter(t, "initWithResponse"), response.answer) IN
    IF t1.err # NoError THEN t1 ELSE extractConfig(t1, response.config)

\* initWithResponse = (response: IModularResponseSchema): void
initWithResponse(t, response) ==
    LET t1 == extractConfig(Enter(t, "initWithResponse"), response.config) IN
    IF t1.err # NoError THEN t1 ELSE extractAnswer(t1, response.answer)

initWithStudentFragment_withAnswer(t, studentFragment) ==
    LET t1 == extractConfig(Enter(t, "initWithStudentFragment"), studentFragment.config) IN
    IF t1.err # NoError THEN t1 ELSE extractAnswer(t1, studentFragment.answer)

\* initWithStudentFragment = (studentFragment): void
initWithStudentFragment(t, studentFragment) ==
    extractConfig(Enter(t, "initWithStudentFragment"), studentFragment.config)

\* initWithTeacherFragment = (teacherFragment): void
initWithTeacherFragment(t, teacherFragment) ==
    LET t1 == extractConfig(Enter(t, "initWithTeacherFragment"), teacherFragment.config) IN
    IF t1.err # NoError THEN t1 ELSE extractAnswer(t1, teacherFragment.answer)

setAnswer_onlyIfUnset(t, provided) ==
    IF t.answer = Undefined THEN extractAnswer(Enter(t, "setAnswer"), provided)
    ELSE Enter(t, "setAnswer")

\* setAnswer = (answer?: IResponseAreaAnswerSchema)
setAnswer(t, provided) == extractAnswer(Enter(t, "setAnswer"), provided)

initialiseTub_ignoresPeek(t, response, displayMode) ==
    LET t1 == Enter(t, "initialiseTub") IN
    IF ~response.present THEN initWithDefault(t1)
    ELSE IF response.hasTypename /\ response.typename = "TeacherModularResponse"
    THEN initWithTeacherFragment(t1, response)
    ELSE IF response.hasTypename /\ response.typename = "StudentModularResponse"
    THEN initWithStudentFragment(t1, response)
    ELSE initWithResponse(t1, response)

initialiseTub_noFallback(t, response, displayMode) ==
    LET t1 == Enter(t, "initialiseTub") IN
    IF ~response.present \/ displayMode = "peek" THEN initWithDefault(t1)
    ELSE IF response.hasTypename /\ response.typename = "TeacherModularResponse"
    THEN initWithTeacherFragment(t1, response)
    ELSE IF response.hasTypename /\ response.typename = "StudentModularResponse"
    THEN initWithStudentFragment(t1, response)
    ELSE initWithDefault(t1)

\* export function initialiseTub(tub, response, displayMode)
initialiseTub(t, response, displayMode) ==
    LET t1 == Enter(t, "initialiseTub") IN
    IF ~response.present \/ displayMode = "peek" THEN initWithDefault(t1)
    ELSE IF response.hasTypename /\ response.typename = "TeacherModularResponse"
    THEN initWithTeacherFragment(t1, response)
    ELSE IF response.hasTypename /\ response.typename = "StudentModularResponse"
    THEN initWithStudentFragment(t1, response)
    ELSE initWithResponse(t1, response)

(***************************************************************************)
(* Serialization.  A result is the thrown Error or the returned object;    *)
(* typename "" is an object without a __typename field, hasAnswer says     *)
(* whether it has an answer field, envelope names the field the object is  *)
(* wrapped under ("" for none).                                            *)
(***************************************************************************)
Thrown(message) ==
    [err |-> message, returned |-> FALSE, typename |-> "",
     responseType |-> NoResponseType, config |-> Undefined,
     hasAnswer |-> FALSE, answer |-> Undefined, envelope |-> ""]

Returned(tn, withAnswer, env) ==
    [err |-> NoError, returned |-> TRUE, typename |-> tn,
     responseType |-> responseType, config |-> config,
     hasAnswer |-> withAnswer, answer |-> IF withAnswer THEN answer ELSE Undefined,
     envelope |-> env]

\* toStudentFragment = (): StudentModularResponseFragment
toStudentFragment ==
    IF Falsy(responseType) THEN Thrown("Response type missing")
    ELSE Returned("StudentModularResponse", FALSE, "")

toTeacherFragment_noAnswerCheck ==
    IF Falsy(responseType) THEN Thrown("Response type missing")
    ELSE Returned("TeacherModularResponse", TRUE, "")

\* toTeacherFragment = (): TeacherModularResponseFragment
toTeacherFragment ==
    IF Falsy(responseType) THEN Thrown("Response type missing")
    ELSE IF answer = Undefined THEN Thrown("Answer missing")
    ELSE Returned("TeacherModularResponse", TRUE, "")

\* toResponse = (): IModularResponseSchema
toResponse ==
    IF Falsy(responseType) THEN Thrown("Response type missing")
    ELSE IF answer = Undefined THEN Thrown("Answer missing")
    ELSE Returned("", TRUE, "")

\* toResponseMutation = (): TeacherCreateResponseInput
toResponseMutation ==
    IF Falsy(responseType) THEN Thrown("Response type missing")
    ELSE IF answer = Undefined THEN Thrown("Answer missing")
    ELSE Returned("", TRUE, "responseInput")

(***************************************************************************)
(* The state machine: one tub of any variant, its methods called in any    *)
(* order.  Execution is single-threaded and synchronous: a call runs to    *)
(* completion, and the caller has received what a serialization call       *)
(* returned or threw (Return) before it makes its next call.               *)
(***************************************************************************)
NoCall ==
    [name |-> "none", response |-> NoResponse, displayMode |-> "normal",
     provided |-> Undefined, preConfig |-> Undefined, preAnswer |-> Undefined,
     err |-> NoError, calls |-> <<>>]

NoOut == [name |-> "none", result |-> Thrown(NoError)]

\* constructor() {} of a concrete variant
Init ==
    /\ responseType \in ResponseTypes
    /\ configSchema \in ConfigSchemas
    /\ answerSchema \in AnswerSchemas
    /\ config = Undefined
    /\ answer = Undefined
    /\ call = NoCall
    /\ out = NoOut

\* The tub after a state-changing method has run (or thrown) as t.
Finish(name, response, displayMode, provided, t) ==
    /\ out = NoOut
    /\ config' = t.config
    /\ answer' = t.answer
    /\ call' = [name |-> name, response |-> response, displayMode |-> displayMode,
                provided |-> provided, preConfig |-> config, preAnswer |-> answer,
                err |-> t.err, calls |-> t.calls]
    /\ UNCHANGED <<responseType, configSchema, answerSchema, out>>

Serialized(name, result) ==
    /\ out = NoOut
    /\ out' = [name |-> name, result |-> result]
    /\ UNCHANGED <<responseType, configSchema, answerSchema, config, answer, call>>

InitialiseTub ==
    \E response \in Responses \cup {NoResponse}, displayMode \in DisplayModes :
        Finish("initialiseTub", response, displayMode, Undefined,
               initialiseTub(Start, response, displayMode))

InitWithDefault ==
    Finish("initWithDefault", NoResponse, "normal", Undefined, initWithDefault(Start))

InitWithResponse ==
    \E response \in Untagged :
        Finish("initWithResponse", response, "normal", Undefined,
               initWithResponse(Start, response))

InitWithStudentFragment ==
    \E response \in Tagged("StudentModularResponse") :
        Finish("initWithStudentFragment", response, "normal", Undefined,
               initWithStudentFragment(Start, response))

InitWithTeacherFragment ==
    \E response \in Tagged("TeacherModularResponse") :
        Finish("initWithTeacherFragment", response, "normal", Undefined,
               initWithTeacherFragment(Start, response))

SetAnswer ==
    \E provided \in Values :
        Finish("setAnswer", NoResponse, "normal", provided, setAnswer(Start, provided))

\* extractConfig / extractAnswer called by the variant's own code (protected).
ExtractConfig ==
    \E provided \in Values :
        Finish("extractConfig", NoResponse, "normal", provided,
               extractConfig(Start, provided))

ExtractAnswer ==
    \E provided \in Values :
        Finish("extractAnswer", NoResponse, "normal", provided,
               extractAnswer(Start, provided))

\* The caller receives the result of the serialization call.
Return ==
    /\ out # NoOut
    /\ out' = NoOut
    /\ UNCHANGED <<responseType, configSchema, answerSchema, config, answer, call>>

ToStudentFragment == Serialized("toStudentFragment", toStudentFragment)

ToTeacherFragment == Serialized("toTeacherFragment", toTeacherFragment)

ToResponse == Serialized("toResponse", toResponse)

ToResponseMutation == Serialized("toResponseMutation", toResponseMutation)

Next ==
    \/ InitialiseTub
    \/ InitWithDefault
    \/ InitWithResponse
    \/ InitWithStudentFragment
    \/ InitWithTeacherFragment
    \/ SetAnswer
    \/ ExtractConfig
    \/ ExtractAnswer
    \/ ToStudentFragment
    \/ ToTeacherFragment
    \/ ToResponse
    \/ ToResponseMutation
    \/ Return

Spec == Init /\ [][Next]_vars


(***************************************************************************)
(* Vocabulary of the properties.                                           *)
(***************************************************************************)
Declared(schema) == schema # NoSchema

\* provided passes the declared schema
Accepts(schema, provided) == Declared(schema) /\ safeParse(schema, provided).success

\* provided fails the declared schema
Rejects(schema, provided) == Declared(schema) /\ ~safeParse(schema, provided).success

Normalized(schema, provided) == safeParse(schema, provided).data

\* The methods entered by the init method the last call ran, that method first.
InitCalls == IF call.name = "initialiseTub" THEN Tail(call.calls) ELSE call.calls

Unchanged == config = call.preConfig /\ answer = call.preAnswer

Dispatched == call.name = "initialiseTub" /\ call.response.present /\ call.displayMode = "normal"

\* C1: initialiseTub with an absent response or in display mode "peek" calls
\* initWithDefault and nothing else: no extraction is attempted, no error is
\* raised, and config and answer are what they were before the call (both
\* undefined on a fresh tub), whatever the variant and whatever the response.
C1_PeekOrAbsentIsDefault ==
    (call.name = "initialiseTub" /\ (~call.response.present \/ call.displayMode = "peek"))
        => /\ call.calls = <<"initialiseTub", "initWithDefault">>
           /\ call.err = NoError
           /\ Unchanged

C1_Witness ==
    /\ call.name = "initialiseTub"
    /\ call.displayMode = "peek"
    /\ call.response.hasTypename /\ call.response.typename = "TeacherModularResponse"
    /\ Accepts(configSchema, call.response.config)
    /\ Accepts(answerSchema, call.response.answer)
    /\ call.preConfig = Undefined /\ call.preAnswer = Undefined
    /\ config = Undefined /\ answer = Undefined

\* C2: in display mode "normal", on a tub whose config and answer are still
\* undefined, a payload tagged "TeacherModularResponse" that passes both declared
\* schemas is given to initWithTeacherFragment and config and answer become the
\* validated values (the answer not undefined when the payload carries one); a payload tagged "StudentModularResponse" whose config passes
\* the declared schema is given to initWithStudentFragment, config becomes the
\* validated value and answer stays undefined whatever answer the payload carries.
C2_TaggedDispatch ==
    (Dispatched /\ call.preConfig = Undefined /\ call.preAnswer = Undefined
       /\ call.response.hasTypename)
        => /\ (/\ call.response.typename = "TeacherModularResponse"
               /\ Accepts(configSchema, call.response.config)
               /\ Accepts(answerSchema, call.response.answer))
                => /\ call.calls = <<"initialiseTub", "initWithTeacherFragment",
                                     "extractConfig", "extractAnswer">>
                   /\ call.err = NoError
                   /\ config = Normalized(configSchema, call.response.config)
                   /\ config # Undefined
                   /\ answer = Normalized(answerSchema, call.response.answer)
                   /\ call.response.answer # Undefined => answer # Undefined
           /\ (/\ call.response.typename = "StudentModularResponse"
               /\ Accepts(configSchema, call.response.config))
                => /\ call.calls = <<"initialiseTub", "initWithStudentFragment",
                                     "extractConfig">>
                   /\ call.err = NoError
                   /\ config = Normalized(configSchema, call.response.config)
                   /\ config # Undefined
                   /\ answer = Undefined

C2_Witness ==
    /\ Dispatched
    /\ call.response.hasTypename /\ call.response.typename = "StudentModularResponse"
    /\ call.preConfig = Undefined /\ call.preAnswer = Undefined
    /\ call.response.config = WithExtraKey
    /\ Accepts(configSchema, call.response.config)
    /\ Accepts(answerSchema, call.response.answer)
    /\ call.response.answer # Undefined
    /\ config # Undefined /\ answer = Undefined

\* C3: in display mode "normal", a present payload with no __typename field, or
\* with one that is neither "TeacherModularResponse" nor "StudentModularResponse",
\* is given to initWithResponse; when it passes both declared schemas, config and
\* answer become the validated forms of the payload's config and answer fields.
C3_FallbackDispatch ==
    (/\ Dispatched
     /\ \/ ~call.response.hasTypename
        \/ call.response.typename \notin {"TeacherModularResponse", "StudentModularResponse"})
        => /\ Len(call.calls) >= 2
           /\ call.calls[2] = "initWithResponse"
           /\ (/\ Accepts(configSchema, call.response.config)
               /\ Accepts(answerSchema, call.response.answer))
                => /\ call.calls = <<"initialiseTub", "initWithResponse",
                                     "extractConfig", "extractAnswer">>
                   /\ call.err = NoError
                   /\ config = Normalized(configSchema, call.response.config)
                   /\ config # Undefined
                   /\ answer = Normalized(answerSchema, call.response.answer)
                   /\ call.response.answer # Undefined => answer # Undefined

C3_Witness ==
    /\ Dispatched
    /\ call.response.hasTypename /\ call.response.typename = "OtherResponse"
    /\ call.response.config = WithExtraKey
    /\ Accepts(configSchema, call.response.config)
    /\ Accepts(answerSchema, call.response.answer)
    /\ call.preAnswer # Undefined
    /\ answer # call.preAnswer /\ answer # Undefined
    /\ config # call.response.config /\ config # Undefined

\* C4: a value that fails the declared configSchema makes extractConfig throw
\* "Could not extract config"; a value that fails the declared answerSchema makes
\* extractAnswer, and so setAnswer, throw "Could not extract answer"; in both
\* cases config and answer are what they were before the call.
C4_InvalidPayloadRaises ==
    /\ (call.name = "extractConfig" /\ Rejects(configSchema, call.provided))
        => (call.err = "Could not extract config" /\ Unchanged)
    /\ (call.name \in {"extractAnswer", "setAnswer"} /\ Rejects(answerSchema, call.provided))
        => (call.err = "Could not extract answer" /\ Unchanged)

C4_Witness ==
    /\ call.name = "setAnswer"
    /\ Rejects(answerSchema, call.provided)
    /\ call.provided # Undefined
    /\ call.err = "Could not extract answer"
    /\ call.preConfig # Undefined /\ call.preAnswer # Undefined

\* C5: whatever state the tub is in, each of the four serialization methods
\* throws "Response type missing" when responseType is not set (the code's test
\* is !this.responseType); with responseType set, toTeacherFragment, toResponse
\* and toResponseMutation throw "Answer missing" when answer is undefined, and
\* toStudentFragment returns {__typename "StudentModularResponse", responseType,
\* config} with no answer field whether or not answer is set.
C5_SerializationErrors ==
    out.name # "none"
        => /\ Falsy(responseType)
                => (out.result.err = "Response type missing" /\ ~out.result.returned)
           /\ (/\ ~Falsy(responseType)
               /\ answer = Undefined
               /\ out.name \in {"toTeacherFragment", "toResponse", "toResponseMutation"})
                => (out.result.err = "Answer missing" /\ ~out.result.returned)
           /\ (~Falsy(responseType) /\ out.name = "toStudentFragment")
                => out.result = [err |-> NoError, returned |-> TRUE,
                                 typename |-> "StudentModularResponse",
                                 responseType |-> responseType, config |-> config,
                                 hasAnswer |-> FALSE, answer |-> Undefined,
                                 envelope |-> ""]

C5_Witness ==
    /\ out.name = "toStudentFragment"
    /\ out.result.returned
    /\ answer = Undefined
    /\ config # Undefined

\* What toResponse returns for the pair the last initWithResponse was given.
RoundTrip ==
    [err |-> NoError, returned |-> TRUE, typename |-> "",
     responseType |-> responseType,
     config |-> Normalized(configSchema, call.response.config),
     hasAnswer |-> TRUE,
     answer |-> Normalized(answerSchema, call.response.answer),
     envelope |-> ""]

AfterAcceptedInitWithResponse ==
    /\ call.name = "initWithResponse"
    /\ Accepts(configSchema, call.response.config)
    /\ Accepts(answerSchema, call.response.answer)
    /\ out.name = "toResponse"

\* C6 as stated: for every (config, answer) pair the variant's schemas accept,
\* initWithResponse({config, answer}) followed by toResponse() returns
\* {responseType, config, answer} with config and answer in normalized form.
C6_AsStated == AfterAcceptedInitWithResponse => out.result = RoundTrip

\* C6 as amended: the same, for a variant whose responseType is set (truthy) and
\* a pair whose normalized answer is not undefined; otherwise toResponse throws.
C6_RoundTrip ==
    (/\ AfterAcceptedInitWithResponse
     /\ ~Falsy(responseType)
     /\ Normalized(answerSchema, call.response.answer) # Undefined)
        => out.result = RoundTrip

C6_Witness ==
    /\ AfterAcceptedInitWithResponse
    /\ call.response.config = WithExtraKey
    /\ call.response.answer = WithExtraKey
    /\ out.result.returned
    /\ out.result.config # call.response.config
    /\ out.result.answer # call.response.answer

NormalForms(schema) ==
    {Normalized(schema, provided) : provided \in {v \in Values : Accepts(schema, v)}}

\* C7: in every reachable state config is undefined or the normalized output of
\* a successful configSchema validation, and answer is undefined or the
\* normalized output of a successful answerSchema validation; a raw input is
\* never stored.
C7_OnlyValidated ==
    /\ config \in {Undefined} \cup NormalForms(configSchema)
    /\ answer \in {Undefined} \cup NormalForms(answerSchema)

C7_Witness ==
    /\ call.name = "initWithTeacherFragment"
    /\ call.response.config = WithExtraKey
    /\ call.response.answer = WithExtraKey
    /\ call.err = NoError
    /\ config # Undefined /\ config # call.response.config
    /\ answer # Undefined /\ answer # call.response.answer

AfterAcceptedSetAnswer ==
    /\ call.name = "setAnswer"
    /\ Accepts(answerSchema, call.provided)
    /\ ~Falsy(responseType)
    /\ out.name = "toTeacherFragment"

\* C8 as stated: for every value v the answerSchema accepts and every prior
\* state with responseType set, setAnswer(v) followed by toTeacherFragment()
\* returns a teacher fragment whose answer is the normalized v.
C8_AsStated ==
    AfterAcceptedSetAnswer
        => /\ out.result.returned
           /\ out.result.answer = Normalized(answerSchema, call.provided)

\* C8 as amended: the same, for every accepted v whose normalized form is not
\* undefined; the fragment carries the new answer, never the one held before.
C8_SetAnswerThenTeacherFragment ==
    (AfterAcceptedSetAnswer /\ Normalized(answerSchema, call.provided) # Undefined)
        => out.result = [err |-> NoError, returned |-> TRUE,
                         typename |-> "TeacherModularResponse",
                         responseType |-> responseType, config |-> config,
                         hasAnswer |-> TRUE,
                         answer |-> Normalized(answerSchema, call.provided),
                         envelope |-> ""]

C8_Witness ==
    /\ AfterAcceptedSetAnswer
    /\ call.preAnswer # Undefined
    /\ call.preAnswer # Normalized(answerSchema, call.provided)
    /\ call.provided = WithExtraKey
    /\ out.result.returned
    /\ out.result.answer # call.preAnswer

\* C9: in a variant that declares no configSchema, extractConfig does nothing
\* for every value: it throws nothing and leaves config and answer alone, so
\* through initWithResponse, initWithStudentFragment and initWithTeacherFragment
\* (called directly or by initialiseTub) config stays undefined and the
\* payload's config is never stored.
C9_NoConfigSchemaNoOp ==
    ~Declared(configSchema)
        => /\ config = Undefined
           /\ call.err # "Could not extract config"
           /\ call.name = "extractConfig"
                => (call.err = NoError /\ call.calls = <<"extractConfig">> /\ Unchanged)
           /\ call.name = "initWithStudentFragment" => (call.err = NoError /\ Unchanged)

C9_Witness ==
    /\ ~Declared(configSchema)
    /\ call.name = "initWithTeacherFragment"
    /\ call.response.config = WithExtraKey
    /\ call.err = NoError
    /\ config = Undefined
    /\ answer # Undefined

\* C10: initWithResponse and initWithTeacherFragment (called directly or by
\* initialiseTub) extract config first and are not atomic.  When the config
\* fails the declared configSchema the call throws "Could not extract config",
\* extractAnswer is never entered and config and answer are unchanged.  When the
\* config passes and the answer fails the declared answerSchema the call throws
\* "Could not extract answer" with config already the new normalized config and
\* answer unchanged.
C10_ConfigBeforeAnswer ==
    (Len(InitCalls) >= 1 /\ InitCalls[1] \in {"initWithResponse", "initWithTeacherFragment"})
        => /\ Len(InitCalls) >= 2 /\ InitCalls[2] = "extractConfig"
           /\ Rejects(configSchema, call.response.config)
                => /\ call.err = "Could not extract config"
                   /\ InitCalls = <<InitCalls[1], "extractConfig">>
                   /\ Unchanged
           /\ (/\ Accepts(configSchema, call.response.config)
               /\ Rejects(answerSchema, call.response.answer))
                => /\ call.err = "Could not extract answer"
                   /\ InitCalls = <<InitCalls[1], "extractConfig", "extractAnswer">>
                   /\ config = Normalized(configSchema, call.response.config)
                   /\ answer = call.preAnswer

C10_Witness ==
    /\ call.name = "initWithResponse"
    /\ Accepts(configSchema, call.response.config)
    /\ Rejects(answerSchema, call.response.answer)
    /\ call.err = "Could not extract answer"
    /\ call.preConfig # Undefined
    /\ config # call.preConfig
    /\ call.preAnswer # Undefined
    /\ answer = call.preAnswer

====
